---- MODULE Spec2Model ----
(***************************************************************************)
(* A model of the ACI fabric client (AciApi, client.py) and of the audit   *)
(* tables created by the nautobot_data_sync migration 0001_initial.        *)
(*                                                                         *)
(* An extractor operation runs as a stack of Python frames.  Every step of *)
(* an operation is one call of _get or _post: the token check, the login   *)
(* it may need, the data request, and the processing of the rows up to the *)
(* next remote call.  An exception unwinds the whole stack, since no       *)
(* function of client.py has a try block around a call of _get or _post.   *)
(***************************************************************************)
EXTENDS Integers, Sequences, FiniteSets, TLC

(* ------------------------------ bounds -------------------------------- *)

\* The clock runs from 0 to MaxTime seconds.
MaxTime == 4

\* Sync rows ever created.
MaxSyncs == 2

\* SyncLogEntry rows ever created.
MaxEntries == 2

\* An address has AddrBits bits (where IPv4 has 32).
AddrBits == 2

\* Static path bindings of an EPG.
MaxBindings == 2

\* Interface selector associations of a policy group.
MaxSelectors == 3

(* --------------------------- value universes --------------------------- *)

\* Python None for the two numeric session fields.
None == -1

\* self.cookies == "" before the first login.
NoCookies == 0

\* Cookie jars the controller can hand out at login.
Tokens == {1}

\* refreshTimeoutSeconds values the controller can declare.
Lifetimes == {1, 2}

\* The sentinel scope of the listing operations.
All == "all"

\* The primary keys of the rows that appear in each referenced table
\* (extras.jobresult, contenttypes.contenttype, extras.objectchange).
TargetIds == {1}

TenantNames == {"A", "B"}

ApNames == {"x", "y"}

EpgNames == {"e"}

VARIABLES
    config,           \* username, password, base_uri, verify, site
    cookies,          \* self.cookies
    last_login,       \* self.last_login
    refresh_timeout,  \* self.refresh_timeout
    now,              \* what datetime.now() returns
    remote,           \* the controller's tenant / application profile / EPG tree
    stack,            \* the frames of the operation in progress, outermost first
    wire,             \* the HTTP requests sent since the operation was invoked
    outcome,          \* how the last operation ended
    lastcall,         \* the last call of _get or _post, as seen from outside
    db                \* the audit tables

vars == <<config, cookies, last_login, refresh_timeout, now, remote, stack,
          wire, outcome, lastcall, db>>

(* ------------------------------ session -------------------------------- *)

Session ==
    [cookies |-> cookies, last_login |-> last_login,
     refresh_timeout |-> refresh_timeout]

NoError == [type |-> "none", calling_func |-> "", response |-> ""]

\* raise RequestConnectError(...) from error
RequestConnectError(kind) ==
    [type |-> "RequestConnectError", calling_func |-> "", response |-> kind]

\* One request on the wire: the login or a data request, and how it ended.
Req(kind, method, uri, status) ==
    [kind |-> kind, method |-> method, uri |-> uri, status |-> status]

LoginUri == [q |-> "aaaLogin"]

\* What requests.request can do: raise, or return a response that is ok or not.
_handle_request ==
    { [raised |-> TRUE, ok |-> FALSE],
      [raised |-> FALSE, ok |-> FALSE],
      [raised |-> FALSE, ok |-> TRUE] }

\* A login that stamps the time of the login whatever the response is.
_login_stamping_every_response(s, t) ==
    UNION { IF r.raised
            THEN { [raised |-> TRUE, ok |-> FALSE, session |-> s] }
            ELSE IF r.ok
            THEN { [raised |-> FALSE, ok |-> TRUE,
                    session |-> [cookies |-> c, last_login |-> t,
                                 refresh_timeout |-> l]] :
                   c \in Tokens, l \in Lifetimes }
            ELSE { [raised |-> FALSE, ok |-> FALSE,
                    session |-> [s EXCEPT !.last_login = t]] }
          : r \in _handle_request }

\* The session after _login, the response it returns, or the exception.
_login(s, t) ==
    UNION { IF r.raised
            THEN { [raised |-> TRUE, ok |-> FALSE, session |-> s] }
            ELSE IF r.ok
            THEN { [raised |-> FALSE, ok |-> TRUE,
                    session |-> [cookies |-> c, last_login |-> t,
                                 refresh_timeout |-> l]] :
                   c \in Tokens, l \in Lifetimes }
            ELSE { [raised |-> FALSE, ok |-> FALSE, session |-> s] }
          : r \in _handle_request }

_refresh_token_ge(s, t) ==
    IF s.last_login = None THEN TRUE
    ELSE t - s.last_login >= s.refresh_timeout

_refresh_token_first_only(s, t) ==
    s.last_login = None

\* True if the login needs a refresh.
_refresh_token(s, t) ==
    IF s.last_login = None THEN TRUE
    ELSE t - s.last_login > s.refresh_timeout

\* frames: the stack at the call of _handle_error, its caller innermost.
\* sys._getframe() is _handle_error's own frame; f_back is its caller's.
_handle_error(frames, kind) ==
    [type |-> "RequestHTTPError", calling_func |-> frames[Len(frames)],
     response |-> kind]

\* The outcomes of self._handle_request(url, ...) followed by the resp.ok test.
DataRequest(me, method, s, sent, uri, answer) ==
    UNION { IF r.raised
            THEN { [session |-> s, raised |-> TRUE, rows |-> <<>>,
                    sent |-> Append(sent, Req("data", method, uri, "connerr")),
                    error |-> RequestConnectError("data")] }
            ELSE IF r.ok
            THEN { [session |-> s, raised |-> FALSE, rows |-> a,
                    sent |-> Append(sent, Req("data", method, uri, "ok")),
                    error |-> NoError] : a \in {answer} }
            ELSE { [session |-> s, raised |-> TRUE, rows |-> <<>>,
                    sent |-> Append(sent, Req("data", method, uri, "fail")),
                    error |-> _handle_error(me, "data")] }
          : r \in _handle_request }

\* The outcomes of the branch taken when _refresh_token() is true.
LoginThen(me, method, s, t, uri, answer) ==
    UNION { IF l.raised
            THEN { [session |-> l.session, raised |-> TRUE, rows |-> <<>>,
                    sent |-> <<Req("login", "post", LoginUri, "connerr")>>,
                    error |-> RequestConnectError("login")] }
            ELSE IF l.ok
            THEN DataRequest(me, method, l.session,
                     <<Req("login", "post", LoginUri, "ok")>>, uri, answer)
            ELSE { [session |-> l.session, raised |-> TRUE, rows |-> <<>>,
                    sent |-> <<Req("login", "post", LoginUri, "fail")>>,
                    error |-> _handle_error(me, "login")] }
          : l \in _login(s, t) }

_get_ignoring_login_failure(frames, s, t, uri, answer) ==
    IF _refresh_token(s, t)
    THEN UNION { DataRequest(Append(frames, "_get"), "get", l.session,
                     <<Req("login", "post", LoginUri,
                           IF l.raised THEN "connerr"
                           ELSE IF l.ok THEN "ok" ELSE "fail")>>,
                     uri, answer)
                 : l \in _login(s, t) }
    ELSE DataRequest(Append(frames, "_get"), "get", s, <<>>, uri, answer)

\* frames: the callers of _get, innermost last.  answer: the body the
\* controller returns for uri when it answer with success.
_get(frames, s, t, uri, answer) ==
    IF _refresh_token(s, t)
    THEN LoginThen(Append(frames, "_get"), "get", s, t, uri, answer)
    ELSE DataRequest(Append(frames, "_get"), "get", s, <<>>, uri, answer)

_post(frames, s, t, uri, answer) ==
    IF _refresh_token(s, t)
    THEN LoginThen(Append(frames, "_post"), "post", s, t, uri, answer)
    ELSE DataRequest(Append(frames, "_post"), "post", s, <<>>, uri, answer)

(* ------------------------- the frames of a run -------------------------- *)

Top == stack[Len(stack)]

Frames == [i \in 1..Len(stack) |-> stack[i].fn]

At(fn, pc) == stack # <<>> /\ Top.fn = fn /\ Top.pc = pc

Frame(fn, args) == [fn |-> fn, pc |-> "start", args |-> args, v |-> <<>>]

NoOutcome ==
    [status |-> "none", fn |-> "", args |-> <<>>, value |-> <<>>,
     error |-> NoError, traceback |-> <<>>]

NoCall ==
    [fn |-> "", last_login |-> None, refresh_timeout |-> None, at |-> 0,
     sent |-> <<>>, error |-> NoError]

\* The frame on top moves to pc with the locals v.
Goto(pc, v) ==
    [stack |-> [stack EXCEPT ![Len(stack)].pc = pc, ![Len(stack)].v = v],
     outcome |-> outcome]

\* The frame on top stays where it is and makes its call again.
Raise_caught_and_retried(e, traceback) == Goto(Top.pc, Top.v)

\* An exception leaves through every frame: nothing catches it.
Raise(e, traceback) ==
    [stack |-> <<>>,
     outcome |-> [status |-> "raised", fn |-> stack[1].fn,
                  args |-> stack[1].args, value |-> <<>>, error |-> e,
                  traceback |-> traceback]]

\* The frame on top returns value: to its caller's locals, or to the user.
Return(value) ==
    IF Len(stack) = 1
    THEN [stack |-> <<>>,
          outcome |-> [status |-> "returned", fn |-> stack[1].fn,
                       args |-> stack[1].args, value |-> value,
                       error |-> NoError, traceback |-> <<>>]]
    ELSE [stack |-> [SubSeq(stack, 1, Len(stack) - 1)
                        EXCEPT ![Len(stack) - 1].pc = "returned",
                               ![Len(stack) - 1].v =
                                   [stack[Len(stack) - 1].v
                                       EXCEPT !.ret = value]],
          outcome |-> outcome]

\* The frame on top, with the locals v, calls fn(args): a new frame.
Enter(v, fn, args) ==
    [stack |-> Append([stack EXCEPT ![Len(stack)].pc = "calling",
                                    ![Len(stack)].v = v],
                      Frame(fn, args)),
     outcome |-> outcome]

\* One call of _get or _post by the frame on top, and then K on its rows.
Call(method, uri, answer, K(_)) ==
    \E o \in (IF method = "get"
              THEN _get(Frames, Session, now, uri, answer)
              ELSE _post(Frames, Session, now, uri, answer)) :
        LET after == IF o.raised
                     THEN Raise(o.error,
                                Append(Frames, IF method = "get" THEN "_get"
                                               ELSE "_post"))
                     ELSE K(o.rows)
        IN  /\ cookies' = o.session.cookies
            /\ last_login' = o.session.last_login
            /\ refresh_timeout' = o.session.refresh_timeout
            /\ wire' = wire \o o.sent
            /\ lastcall' = [fn |-> IF method = "get" THEN "_get" ELSE "_post",
                            last_login |-> last_login,
                            refresh_timeout |-> refresh_timeout,
                            at |-> now, sent |-> o.sent, error |-> o.error]
            /\ stack' = after.stack
            /\ outcome' = after.outcome
            /\ UNCHANGED <<config, now, remote, db>>

\* The user calls fn(args) on an idle client.
Invoke(fn, args) ==
    /\ stack = <<>>
    /\ stack' = <<Frame(fn, args)>>
    /\ wire' = <<>>
    /\ outcome' = NoOutcome
    /\ lastcall' = NoCall
    /\ UNCHANGED <<config, cookies, last_login, refresh_timeout, now, remote, db>>

\* A second passes.
Tick ==
    /\ now < MaxTime
    /\ now' = now + 1
    /\ UNCHANGED <<config, cookies, last_login, refresh_timeout, remote,
                   stack, wire, outcome, lastcall, db>>

(* ------------------------ the controller's tree ------------------------- *)

\* A distinguished name uni/tn-T/ap-A/epg-E, with "" for an absent segment.
Dn(tn, ap, epg) == [tn |-> tn, ap |-> ap, epg |-> epg]

\* The resolvers of utils.py: each extracts one segment of the DN.
tenant_from_dn(dn) == dn.tn

ap_from_dn(dn) == dn.ap

\* /api/node/class/<cls>.json
Class(cls) == [q |-> "class", cls |-> cls, dn |-> Dn("", "", ""), filter |-> <<>>]

\* /api/node/mo/<dn>.json?query-target=children&target-subtree-class=<cls>
Children(dn, cls) == [q |-> "children", cls |-> cls, dn |-> dn, filter |-> <<>>]

ParentDn(dn) ==
    IF dn.epg # "" THEN Dn(dn.tn, dn.ap, "")
    ELSE IF dn.ap # "" THEN Dn(dn.tn, "", "")
    ELSE Dn("", "", "")

\* The elements of u at the indices in S, in u's order.
Pick(u, S) ==
    LET F[i \in 0..Len(u)] ==
            IF i = 0 THEN <<>>
            ELSE IF i \in S THEN Append(F[i - 1], u[i]) ELSE F[i - 1]
    IN  F[Len(u)]

\* The rows of one class, as the controller lists them.
ClassRows(cls) ==
    CASE cls = "fvTenant" ->
            [i \in 1..Len(remote.tenants) |->
                [name |-> remote.tenants[i], descr |-> "", dn |-> Dn(remote.tenants[i], "", "")]]
      [] cls = "fvAp" ->
            [i \in 1..Len(remote.aps) |->
                [name |-> remote.aps[i].ap, descr |-> "", dn |-> remote.aps[i]]]
      [] cls = "fvAEPg" ->
            [i \in 1..Len(remote.epgs) |->
                [name |-> remote.epgs[i].epg, descr |-> "", dn |-> remote.epgs[i]]]

\* The body the controller returns for a query of its tree.
TreeAnswer(uri) ==
    IF uri.q = "class" THEN ClassRows(uri.cls)
    ELSE SelectSeq(ClassRows(uri.cls), LAMBDA r : ParentDn(r.dn) = uri.dn)

ApUniverse == <<Dn("A", "x", ""), Dn("A", "y", ""), Dn("B", "x", ""), Dn("B", "y", "")>>

EpgUniverse == <<Dn("A", "x", "e"), Dn("A", "y", "e"), Dn("B", "x", "e"), Dn("B", "y", "e")>>

Range(s) == { s[i] : i \in 1..Len(s) }

\* A tree of the two tenants.
Tree(aps, epgs) == [tenants |-> <<"A", "B">>, aps |-> aps, epgs |-> epgs]

\* Every tree over the two tenants in which each EPG's application profile exists.
Fabrics ==
    { f \in { Tree(Pick(ApUniverse, S), Pick(EpgUniverse, T)) :
                 S \in SUBSET (1..Len(ApUniverse)),
                 T \in SUBSET (1..Len(EpgUniverse)) } :
        \A e \in Range(f.epgs) : ParentDn(e) \in Range(f.aps) }

\* The tree of the specifications that do not vary it.
SmallTree ==
    Tree(<<Dn("A", "x", ""), Dn("B", "x", "")>>,
         <<Dn("A", "x", "e"), Dn("B", "x", "e")>>)

(* --------------------------- single-call operations --------------------- *)

tenant_list(rows) ==
    [i \in 1..Len(rows) |-> [name |-> rows[i].name, description |-> rows[i].descr]]

get_tenants ==
    /\ At("get_tenants", "start")
    /\ Call("get", Class("fvTenant"), TreeAnswer(Class("fvTenant")),
            LAMBDA rows : Return(tenant_list(rows)))

ap_list(rows) ==
    [i \in 1..Len(rows) |-> [tenant |-> tenant_from_dn(rows[i].dn), ap |-> rows[i].name]]

get_aps_uri(tenant) ==
    IF tenant = All THEN Class("fvAp")
    ELSE Children(Dn(tenant, "", ""), "fvAp")

get_aps ==
    /\ At("get_aps", "start")
    /\ Call("get", get_aps_uri(Top.args.tenant),
            TreeAnswer(get_aps_uri(Top.args.tenant)),
            LAMBDA rows : Return(ap_list(rows)))

epg_item(row) ==
    [tenant |-> tenant_from_dn(row.dn), ap |-> ap_from_dn(row.dn), epg |-> row.name]

epg_list_unfiltered(tenant, rows) ==
    [i \in 1..Len(rows) |-> epg_item(rows[i])]

epg_list(tenant, rows) ==
    IF tenant = All
    THEN [i \in 1..Len(rows) |-> epg_item(rows[i])]
    ELSE LET kept == SelectSeq(rows, LAMBDA r : tenant_from_dn(r.dn) = tenant)
         IN  [i \in 1..Len(kept) |-> epg_item(kept[i])]

get_epgs_uri(tenant, ap) ==
    IF ap = All THEN Class("fvAEPg")
    ELSE Children(Dn(tenant, ap, ""), "fvAEPg")

get_epgs ==
    /\ At("get_epgs", "start")
    /\ Call("get", get_epgs_uri(Top.args.tenant, Top.args.ap),
            TreeAnswer(get_epgs_uri(Top.args.tenant, Top.args.ap)),
            LAMBDA rows : Return(epg_list(Top.args.tenant, rows)))

\* The node identity policy the controller is asked to create.
Nodeidentpol(serial, node_id, name) ==
    [q |-> "nodeidentpol", cls |-> "fabricNodeIdentP",
     dn |-> Dn("", "", ""), filter |-> <<serial, node_id, name>>]

\* register_node returns True: _post returns only a response that is ok.
register_node ==
    /\ At("register_node", "start")
    /\ Call("post", Nodeidentpol(Top.args.serial_nbr, Top.args.node_id, Top.args.name),
            <<>>, LAMBDA rows : Return(TRUE))

(* ------------------------------ addresses ------------------------------- *)

\* The string of an address without a prefix length.
NoLen == -1

\* "a.b.c.d"
Addr(a) == [ip |-> a, len |-> NoLen]

\* "a.b.c.d/l": what f"{address}/{length}" builds.
Cidr(a, l) == [ip |-> a, len |-> l]

\* ""
EmptyStr == [ip |-> -1, len |-> NoLen]

\* "0.0.0.0"
ZeroAddr == Addr(0)

Pow2(n) == LET F[i \in 0..n] == IF i = 0 THEN 1 ELSE 2 * F[i - 1] IN F[n]

\* ipaddress.ip_network(x, strict=False): the host bits are masked out, and
\* an address without a prefix length is a network of one address.
ip_network(x) ==
    LET l == IF x.len = NoLen THEN AddrBits ELSE x.len
        size == Pow2(AddrBits - l)
    IN  [ip |-> (x.ip \div size) * size, len |-> l]

Addrs == { Addr(a) : a \in 0..(Pow2(AddrBits) - 1) }

Networks ==
    { Cidr(a, l) : a \in 0..(Pow2(AddrBits) - 1), l \in 0..AddrBits } \cap
    { ip_network(Cidr(a, l)) : a \in 0..(Pow2(AddrBits) - 1), l \in 0..AddrBits }

(* ------------------------- nodes and controllers ------------------------ *)

\* topology/pod-P/node-N, and for a chassis extender .../sys/extch-F.
NodeDn(pod, node) == [pod |-> pod, node |-> node]

\* The resolvers of utils.py for the DN of a node.
pod_from_dn(dn) == dn.pod

node_from_dn(dn) == dn.node

\* /api/class/<cls>.json?query-target-filter=<op>(<cls>.<attr>,"<value>")
ClassWhere(cls, op, attr, value) ==
    [q |-> "class", cls |-> cls, dn |-> Dn("", "", ""),
     filter |-> <<op, attr, value>>]

\* The rows of a class that pass the query-target-filter.
FilteredRows(uri) ==
    SelectSeq(remote[uri.cls],
              LAMBDA r : IF uri.filter[1] = "ne"
                         THEN r[uri.filter[2]] # uri.filter[3]
                         ELSE r[uri.filter[2]] = uri.filter[3])

KeyError == [type |-> "KeyError", calling_func |-> "", response |-> ""]

\* d[k] = v for a dict d.
Put(d, k, v) == (k :> v) @@ d

\* lines 373-382: the active fabric nodes, keyed by id.
get_nodes_identity(rows) ==
    LET F[i \in 0..Len(rows)] ==
            IF i = 0 THEN <<>>
            ELSE IF rows[i].fabricSt = "active"
            THEN Put(F[i - 1], rows[i].id,
                     [name |-> rows[i].name, model |-> rows[i].model,
                      role |-> rows[i].role, serial |-> rows[i].serial,
                      fabric_ip |-> rows[i].address,
                      pod_id |-> pod_from_dn(rows[i].dn)])
            ELSE F[i - 1]
    IN  F[Len(rows)]

\* lines 386-394
get_nodes_mgmt_addr(row) ==
    IF row.oobMgmtAddr # ZeroAddr
    THEN Cidr(row.oobMgmtAddr.ip, row.oobMgmtAddrMask)
    ELSE IF row.address # ZeroAddr /\ row.tepPool # EmptyStr
    THEN Cidr(row.address.ip, ip_network(row.tepPool).len)
    ELSE EmptyStr

\* lines 395-400
get_nodes_subnet(row, mgmt_addr) ==
    IF row.tepPool # ZeroAddr THEN row.tepPool
    ELSE IF mgmt_addr # EmptyStr THEN ip_network(mgmt_addr)
    ELSE EmptyStr

\* A merge that makes the record of a node that has none.
get_nodes_merge_creating(node_dict, rows) ==
    LET F[i \in 0..Len(rows)] ==
            IF i = 0 THEN [raised |-> FALSE, dict |-> node_dict]
            ELSE LET mgmt_addr == get_nodes_mgmt_addr(rows[i])
                     d == F[i - 1].dict
                     old == IF rows[i].id \in DOMAIN d THEN d[rows[i].id] ELSE <<>>
                 IN  [raised |-> FALSE,
                      dict |-> Put(d, rows[i].id,
                                   Put(Put(Put(old, "oob_ip", mgmt_addr),
                                           "subnet", get_nodes_subnet(rows[i], mgmt_addr)),
                                       "uptime", rows[i].systemUpTime))]
    IN  F[Len(rows)]

\* lines 385-404: the loop over the topSystem rows.  node_dict[node_id]
\* raises KeyError when the identity step made no record for node_id.
get_nodes_merge(node_dict, rows) ==
    LET F[i \in 0..Len(rows)] ==
            IF i = 0 THEN [raised |-> FALSE, dict |-> node_dict]
            ELSE IF F[i - 1].raised THEN F[i - 1]
            ELSE IF rows[i].id \notin DOMAIN F[i - 1].dict
            THEN [raised |-> TRUE, dict |-> F[i - 1].dict]
            ELSE LET mgmt_addr == get_nodes_mgmt_addr(rows[i])
                     d == F[i - 1].dict
                 IN  [raised |-> FALSE,
                      dict |-> Put(d, rows[i].id,
                                   Put(Put(Put(d[rows[i].id], "oob_ip", mgmt_addr),
                                           "subnet", get_nodes_subnet(rows[i], mgmt_addr)),
                                       "uptime", rows[i].systemUpTime))]
    IN  F[Len(rows)]

\* lines 408-421: the loop over the chassis extenders.
get_nodes_fex(node_dict, rows, site) ==
    LET F[i \in 0..Len(rows)] ==
            IF i = 0 THEN [raised |-> FALSE, dict |-> node_dict]
            ELSE IF F[i - 1].raised THEN F[i - 1]
            ELSE LET parent_node_id == node_from_dn(rows[i].dn)
                     node_id == parent_node_id \o rows[i].id
                     d == Put(F[i - 1].dict, node_id, <<>>)
                 IN  IF parent_node_id \notin DOMAIN d
                     THEN [raised |-> TRUE, dict |-> d]
                     ELSE [raised |-> FALSE,
                           dict |-> Put(d, node_id,
                                [name |-> d[parent_node_id].name \o "-" \o rows[i].id,
                                 model |-> rows[i].model, role |-> "fex",
                                 serial |-> rows[i].ser, descr |-> rows[i].descr,
                                 parent_id |-> parent_node_id,
                                 fex_id |-> rows[i].id,
                                 pod_id |-> pod_from_dn(rows[i].dn),
                                 site |-> site])]
    IN  F[Len(rows)]

NodesFabricNode == ClassWhere("fabricNode", "ne", "role", "controller")

NodesTopSystem == ClassWhere("topSystem", "ne", "role", "controller")

get_nodes ==
    /\ At("get_nodes", "start")
    /\ Call("get", NodesFabricNode, FilteredRows(NodesFabricNode),
            LAMBDA rows : Goto("topSystem", [node_dict |-> get_nodes_identity(rows)]))

get_nodes_topSystem ==
    /\ At("get_nodes", "topSystem")
    /\ Call("get", NodesTopSystem, FilteredRows(NodesTopSystem),
            LAMBDA rows :
                LET merged == get_nodes_merge(Top.v.node_dict, rows)
                IN  IF merged.raised THEN Raise(KeyError, Frames)
                    ELSE Goto("eqptExtCh", [node_dict |-> merged.dict]))

get_nodes_eqptExtCh ==
    /\ At("get_nodes", "eqptExtCh")
    /\ Call("get", Class("eqptExtCh"), remote.eqptExtCh,
            LAMBDA rows :
                LET all == get_nodes_fex(Top.v.node_dict, rows, config.site)
                IN  IF all.raised THEN Raise(KeyError, Frames)
                    ELSE Return(all.dict))

\* lines 428-436
get_controllers_identity(rows, site) ==
    LET F[i \in 0..Len(rows)] ==
            IF i = 0 THEN <<>>
            ELSE Put(F[i - 1], rows[i].id,
                     [name |-> rows[i].name,
                      model |-> IF rows[i].model # "" THEN rows[i].model
                                ELSE "APIC-SIM",
                      role |-> rows[i].role, serial |-> rows[i].serial,
                      fabric_ip |-> rows[i].address, site |-> site])
    IN  F[Len(rows)]

\* lines 439-447
get_controllers_mgmt_addr(row) ==
    IF row.oobMgmtAddr # ZeroAddr
    THEN Cidr(row.oobMgmtAddr.ip, row.oobMgmtAddrMask)
    ELSE IF row.address # ZeroAddr /\ row.tepPool # EmptyStr
    THEN Cidr(row.address.ip, ip_network(row.tepPool).len)
    ELSE EmptyStr

\* lines 448-453
get_controllers_subnet(row, mgmt_addr) ==
    IF row.tepPool # ZeroAddr THEN row.tepPool
    ELSE IF mgmt_addr # EmptyStr THEN ip_network(mgmt_addr)
    ELSE EmptyStr

\* lines 438-458
get_controllers_merge(node_dict, rows) ==
    LET F[i \in 0..Len(rows)] ==
            IF i = 0 THEN [raised |-> FALSE, dict |-> node_dict]
            ELSE IF F[i - 1].raised THEN F[i - 1]
            ELSE IF rows[i].id \notin DOMAIN F[i - 1].dict
            THEN [raised |-> TRUE, dict |-> F[i - 1].dict]
            ELSE LET mgmt_addr == get_controllers_mgmt_addr(rows[i])
                     d == F[i - 1].dict
                 IN  [raised |-> FALSE,
                      dict |-> Put(d, rows[i].id,
                                   Put(Put(Put(Put(d[rows[i].id], "pod_id", rows[i].podId),
                                               "oob_ip", mgmt_addr),
                                           "subnet", get_controllers_subnet(rows[i], mgmt_addr)),
                                       "uptime", rows[i].systemUpTime))]
    IN  F[Len(rows)]

ControllersFabricNode == ClassWhere("fabricNode", "eq", "role", "controller")

ControllersTopSystem == ClassWhere("topSystem", "eq", "role", "controller")

get_controllers ==
    /\ At("get_controllers", "start")
    /\ Call("get", ControllersFabricNode, FilteredRows(ControllersFabricNode),
            LAMBDA rows :
                Goto("topSystem",
                     [node_dict |-> get_controllers_identity(rows, config.site)]))

get_controllers_topSystem ==
    /\ At("get_controllers", "topSystem")
    /\ Call("get", ControllersTopSystem, FilteredRows(ControllersTopSystem),
            LAMBDA rows :
                LET merged == get_controllers_merge(Top.v.node_dict, rows)
                IN  IF merged.raised THEN Raise(KeyError, Frames)
                    ELSE Return(merged.dict))

\* A fabricNode row.
FabricNode(id, name, role, fabricSt) ==
    [id |-> id, name |-> name, model |-> "N9K", role |-> role,
     serial |-> "SN" \o id, address |-> Addr(1), dn |-> NodeDn("1", id),
     fabricSt |-> fabricSt]

\* A topSystem row; a holds the four address attributes.
TopSystem(id, role, a) ==
    [id |-> id, role |-> role, oobMgmtAddr |-> a.oobMgmtAddr,
     oobMgmtAddrMask |-> a.oobMgmtAddrMask, address |-> a.address,
     tepPool |-> a.tepPool, systemUpTime |-> "up", podId |-> "1"]

\* An eqptExtCh row: extender id under the node parent.
EqptExtCh(parent, id) ==
    [id |-> id, model |-> "N2K", ser |-> "FX" \o id, descr |-> "",
     dn |-> NodeDn("1", parent)]

\* The address attributes of the fabric that the specifications which do
\* not vary them see: out-of-band 1/1, in-band 2, tunnel endpoint pool 2/1.
SmallAttrs ==
    [oobMgmtAddr |-> Addr(1), oobMgmtAddrMask |-> 1, address |-> Addr(2),
     tepPool |-> Cidr(2, 1)]

\* The fabric states of a node.
FabricStates == {"active", "inactive"}

\* The node classes in which the leaves 101 and 102 have any fabric state,
\* any of the identity row of controller 1, the management rows of 101, 102,
\* 103, controller 1 and controller 2, and the extenders under 101 and 102
\* exists.
MergeFabrics ==
    { [fabricNode |-> <<FabricNode("101", "leaf1", "leaf", s1),
                        FabricNode("102", "leaf2", "leaf", s2)>> \o
                      Pick(<<FabricNode("1", "apic1", "controller", "unknown")>>, C),
       topSystem |-> Pick(<<TopSystem("101", "leaf", SmallAttrs),
                            TopSystem("102", "leaf", SmallAttrs),
                            TopSystem("103", "leaf", SmallAttrs),
                            TopSystem("1", "controller", SmallAttrs),
                            TopSystem("2", "controller", SmallAttrs)>>, T),
       eqptExtCh |-> Pick(<<EqptExtCh("101", "111"), EqptExtCh("102", "112")>>, E)] :
        s1 \in FabricStates, s2 \in FabricStates, C \in SUBSET {1},
        T \in SUBSET (1..5), E \in SUBSET (1..2) }

\* The address attributes a topSystem row can carry.
TopAttrs ==
    [oobMgmtAddr : Addrs, oobMgmtAddrMask : 0..AddrBits, address : Addrs,
     tepPool : Networks \cup {ZeroAddr, EmptyStr}]

\* A leaf and a controller that report the same address attributes a.
NodeFabric(a) ==
    [fabricNode |-> <<FabricNode("101", "leaf1", "leaf", "active"),
                      FabricNode("102", "leaf2", "leaf", "inactive"),
                      FabricNode("1", "apic1", "controller", "unknown")>>,
     topSystem |-> <<TopSystem("101", "leaf", a), TopSystem("1", "controller", a)>>,
     eqptExtCh |-> <<EqptExtCh("101", "111")>>]

(* ----------------------------- static paths ---------------------------- *)

\* None where the other values are strings.
NoneStr == "None"

AttributeError == [type |-> "AttributeError", calling_func |-> "", response |-> ""]

IndexError == [type |-> "IndexError", calling_func |-> "", response |-> ""]

\* /api/node/mo/<dn>.json
Mo(dn) == [q |-> "mo", cls |-> "", dn |-> dn, filter |-> <<>>]

\* /api/node/mo/<dn>.json?query-target=subtree&target-subtree-class=<cls>
Subtree(dn, cls) == [q |-> "subtree", cls |-> cls, dn |-> dn, filter |-> <<>>]

\* The rows of class cls whose field is key.
Under(cls, field, key) == SelectSeq(remote[cls], LAMBDA r : r[field] = key)

\* topology/pod-P/<seg>-C/pathep-[E]: seg is paths, protpaths, or a segment
\* that holds neither word.
PathDn(pod, seg, cont, ep) == [pod |-> pod, seg |-> seg, cont |-> cont, ep |-> ep]

\* "paths" in tDn: the word protpaths holds the word paths.
HasPaths(tDn) == tDn.seg \in {"paths", "protpaths"}

\* "protpaths" in tDn
HasProtpaths(tDn) == tDn.seg = "protpaths"

\* re.match("topology/pod-[0-9]/(prot)paths-...", tDn): one digit of pod.
PatternMatches(tDn) == tDn.pod \in 0..9

\* re.match(pattern, tDn).group(): the DN of the container.
ContainerDn(tDn) == PathDn(tDn.pod, tDn.seg, tDn.cont, "")

\* uni/infra/accportprof-<prof>/hports-<hports>-typ-range
SelectorDn(prof, hports) == [prof |-> prof, hports |-> hports]

\* re.search("-.*/", tDn).group().lstrip("-").rstrip("/")
ifselector_of(tDn) == tDn.prof

\* The bindings from index i on: the first one with a path shape decides.
\* A binding of another shape gives no record.
get_static_path_binding(v, i) ==
    LET F[k \in 1..(Len(v.rows) + 1)] ==
            IF k > Len(v.rows) THEN Return(v.sp_list)
            ELSE LET tDn == v.rows[k].tDn
                     sp_dict == [encap |-> v.rows[k].encap]
                 IN  IF ~HasPaths(tDn) THEN F[k + 1]
                     ELSE IF ~PatternMatches(tDn) THEN Raise(AttributeError, Frames)
                     ELSE IF ~HasProtpaths(tDn)
                     THEN Goto("fabricPathEpCont",
                               [v EXCEPT !.i = k,
                                         !.sp_dict = Put(sp_dict, "type", "non-PC")])
                     ELSE Goto("fabricProtPathEpCont",
                               [v EXCEPT !.i = k, !.sp_dict = sp_dict])
    IN  F[i]

\* sp_list.append(sp_dict), and the next binding.
get_static_path_append(v, sp_dict) ==
    get_static_path_binding([v EXCEPT !.sp_list = Append(v.sp_list, sp_dict)], v.i + 1)

StaticPathUri(args) == Subtree(Dn(args.tenant, args.ap, args.epg), "fvRsPathAtt")

get_static_path ==
    /\ At("get_static_path", "start")
    /\ Call("get", StaticPathUri(Top.args),
            Under("fvRsPathAtt", "epg", Dn(Top.args.tenant, Top.args.ap, Top.args.epg)),
            LAMBDA rows :
                get_static_path_binding(
                    [rows |-> rows, i |-> 0, sp_list |-> <<>>, sp_dict |-> <<>>,
                     polgrp |-> "", sels |-> <<>>, j |-> 0], 1))

\* lines 226-227: port on a single node, the container
get_static_path_fabricPathEpCont ==
    /\ At("get_static_path", "fabricPathEpCont")
    /\ Call("get", Mo(ContainerDn(Top.v.rows[Top.v.i].tDn)),
            Under("fabricPathEpCont", "dn", ContainerDn(Top.v.rows[Top.v.i].tDn)),
            LAMBDA rows :
                IF rows = <<>> THEN Raise(IndexError, Frames)
                ELSE Goto("fabricPathEp",
                          [Top.v EXCEPT !.sp_dict = Put(@, "node_id", rows[1].nodeId)]))

\* lines 228-231: port on a single node, the path endpoint
get_static_path_fabricPathEp ==
    /\ At("get_static_path", "fabricPathEp")
    /\ Call("get", Mo(Top.v.rows[Top.v.i].tDn),
            Under("fabricPathEp", "dn", Top.v.rows[Top.v.i].tDn),
            LAMBDA rows :
                IF rows = <<>> THEN Raise(IndexError, Frames)
                ELSE get_static_path_append(Top.v,
                        Put(Put(Top.v.sp_dict, "intf", rows[1].name),
                            "pathtype", rows[1].pathT)))

get_static_path_type_always_vpc(node_a, node_b) == "vPC"

\* lines 238-243
get_static_path_type(node_a, node_b) == IF node_a = node_b THEN "PC" ELSE "vPC"

\* lines 270-275
get_static_path_no_container(sp_dict) ==
    Put(Put(Put(Put(Put(sp_dict, "node_a", NoneStr), "node_b", NoneStr),
                "node_a_intfs", <<>>), "node_b_intfs", <<>>), "type", NoneStr)

\* lines 234-243, 270-276: PortChannel or vPC, the container
get_static_path_fabricProtPathEpCont ==
    /\ At("get_static_path", "fabricProtPathEpCont")
    /\ Call("get", Mo(ContainerDn(Top.v.rows[Top.v.i].tDn)),
            Under("fabricProtPathEpCont", "dn", ContainerDn(Top.v.rows[Top.v.i].tDn)),
            LAMBDA rows :
                IF Len(rows) > 0
                THEN Goto("polgrp",
                          [Top.v EXCEPT !.sp_dict =
                              Put(Put(Put(@, "node_a", rows[1].nodeAId),
                                      "node_b", rows[1].nodeBId),
                                  "type", get_static_path_type(rows[1].nodeAId,
                                                               rows[1].nodeBId))])
                ELSE get_static_path_append(Top.v,
                                            get_static_path_no_container(Top.v.sp_dict)))

\* lines 245-246: the policy group
get_static_path_polgrp ==
    /\ At("get_static_path", "polgrp")
    /\ Call("get", Mo(Top.v.rows[Top.v.i].tDn),
            Under("fabricPathEp", "dn", Top.v.rows[Top.v.i].tDn),
            LAMBDA rows :
                IF rows = <<>> THEN Raise(IndexError, Frames)
                ELSE Goto("infraRtAccBaseGrp", [Top.v EXCEPT !.polgrp = rows[1].name]))

\* lines 247-251: the selectors of the policy group
get_static_path_infraRtAccBaseGrp ==
    /\ At("get_static_path", "infraRtAccBaseGrp")
    /\ Call("get", Subtree(Top.v.polgrp, "infraRtAccBaseGrp"),
            Under("infraRtAccBaseGrp", "bundle", Top.v.polgrp),
            LAMBDA rows :
                LET sp_dict == Put(Put(Top.v.sp_dict, "node_a_intfs", <<>>),
                                   "node_b_intfs", <<>>)
                IN  IF rows = <<>> THEN get_static_path_append(Top.v, sp_dict)
                    ELSE Goto("infraPortBlk",
                              [Top.v EXCEPT !.sp_dict = sp_dict, !.sels = rows, !.j = 1]))

\* lines 259-269: the interfaces of one selector go to side A or to side B.
get_static_path_side(sp_dict, ifselector, intfs) ==
    IF "node_a_ifselector" \notin DOMAIN sp_dict
    THEN Put(Put(sp_dict, "node_a_ifselector", ifselector),
             "node_a_intfs", sp_dict.node_a_intfs \o intfs)
    ELSE IF sp_dict.node_a_ifselector = ifselector
    THEN Put(sp_dict, "node_a_intfs", sp_dict.node_a_intfs \o intfs)
    ELSE Put(Put(sp_dict, "node_b_ifselector", ifselector),
             "node_b_intfs", sp_dict.node_b_intfs \o intfs)

\* lines 252-269: the port blocks of one selector
get_static_path_infraPortBlk ==
    /\ At("get_static_path", "infraPortBlk")
    /\ Call("get", Subtree(Top.v.sels[Top.v.j].tDn, "infraPortBlk"),
            Under("infraPortBlk", "parent", Top.v.sels[Top.v.j].tDn),
            LAMBDA rows :
                LET intfs == [n \in 1..Len(rows) |->
                                 rows[n].toCard \o "/" \o rows[n].toPort]
                    sp_dict == get_static_path_side(Top.v.sp_dict,
                                   ifselector_of(Top.v.sels[Top.v.j].tDn), intfs)
                IN  IF Top.v.j < Len(Top.v.sels)
                    THEN Goto("infraPortBlk",
                              [Top.v EXCEPT !.sp_dict = sp_dict, !.j = @ + 1])
                    ELSE get_static_path_append(Top.v, sp_dict))

\* The bindings an EPG can have: a port on one node, the same in a pod of
\* two digits, a pair of nodes, a pair of nodes that has no container, and a
\* target that is no path.
BindingUniverse ==
    { [epg |-> Dn("A", "x", "e"), encap |-> "vlan-1", tDn |-> tDn] :
        tDn \in {PathDn(1, "paths", "101", "eth1/1"),
                 PathDn(10, "paths", "101", "eth1/1"),
                 PathDn(1, "protpaths", "101-102", "po1"),
                 PathDn(1, "protpaths", "103-104", "po2"),
                 PathDn(1, "node", "101", "")} }

\* The sequences over S of length n.
Tuples(S, n) == [1..n -> S]

BindingLists == UNION { Tuples(BindingUniverse, n) : n \in 0..MaxBindings }

NodeIds == {"101", "102"}

\* What the container of the pair 101-102 can be: absent, or a row with any
\* two node ids.
ProtContainers ==
    {<<>>} \cup
    { <<[dn |-> PathDn(1, "protpaths", "101-102", ""), nodeAId |-> a, nodeBId |-> b]>> :
        a \in NodeIds, b \in NodeIds }

\* The path classes of the controller around the given bindings and container.
PathFabric(bindings, protcont) ==
    [fvRsPathAtt |-> bindings,
     fabricPathEpCont |-> <<[dn |-> PathDn(1, "paths", "101", ""), nodeId |-> "101"]>>,
     fabricProtPathEpCont |-> protcont,
     fabricPathEp |-> <<[dn |-> PathDn(1, "paths", "101", "eth1/1"),
                         name |-> "eth1/1", pathT |-> "leaf"],
                        [dn |-> PathDn(1, "protpaths", "101-102", "po1"),
                         name |-> "po1", pathT |-> "leaf"]>>,
     infraRtAccBaseGrp |-> <<[bundle |-> "po1", tDn |-> SelectorDn("L101", "p1")],
                             [bundle |-> "po1", tDn |-> SelectorDn("L102", "p1")]>>,
     infraPortBlk |-> <<[parent |-> SelectorDn("L101", "p1"), toCard |-> "1", toPort |-> "5"],
                        [parent |-> SelectorDn("L102", "p1"), toCard |-> "1", toPort |-> "6"]>>]

\* The paths of the specifications that do not vary them: a port and a vPC.
SmallPaths ==
    PathFabric(<<[epg |-> Dn("A", "x", "e"), encap |-> "vlan-1",
                  tDn |-> PathDn(1, "paths", "101", "eth1/1")],
                 [epg |-> Dn("A", "x", "e"), encap |-> "vlan-2",
                  tDn |-> PathDn(1, "protpaths", "101-102", "po1")]>>,
               <<[dn |-> PathDn(1, "protpaths", "101-102", ""),
                  nodeAId |-> "101", nodeBId |-> "102"]>>)

\* The interface profiles that an association of the policy group po1 can
\* belong to.
SelectorNames == {"L101", "L102", "L103"}

SelectorLists == UNION { Tuples(SelectorNames, n) : n \in 0..MaxSelectors }

\* The path classes in which the policy group po1 has the associations
\* names[1], names[2], ... in this order; association i has the one port 1/i.
SelectorFabric(names) ==
    [SmallPaths EXCEPT
        !.infraRtAccBaseGrp =
            [i \in 1..Len(names) |->
                [bundle |-> "po1", tDn |-> SelectorDn(names[i], ToString(i))]],
        !.infraPortBlk =
            [i \in 1..Len(names) |->
                [parent |-> SelectorDn(names[i], ToString(i)),
                 toCard |-> "1", toPort |-> ToString(i)]]]

(* ------------------- contracts, bridge domains, EPGs -------------------- *)

\* None or a list.
NoneList == [is_none |-> TRUE, items |-> <<>>]

List(items) == [is_none |-> FALSE, items |-> items]

\* uni/tn-T/BD-B, uni/tn-T/brc-C, uni/tn-T/ctx-V
TenantDn(tn, tag, name) == [tn |-> tn, tag |-> tag, name |-> name]

\* A name the controller left out of a row.
Missing == "<missing>"

\* A DN the controller left out of a row, or left empty.
NoDn == TenantDn("", "", "")

\* /api/node/mo/<dn>.json?query-target=children
AllChildren(dn) == [q |-> "children", cls |-> "", dn |-> dn, filter |-> <<>>]

get_bd_subnet ==
    /\ At("get_bd_subnet", "start")
    /\ Call("get", Children(TenantDn(Top.args.tenant, "BD", Top.args.bd), "fvSubnet"),
            Under("fvSubnet", "bd", TenantDn(Top.args.tenant, "BD", Top.args.bd)),
            LAMBDA rows :
                IF Len(rows) > 0
                THEN Return(List([i \in 1..Len(rows) |-> rows[i].ip]))
                ELSE Return(NoneList))

\* The subjects from index s on: the next query, or the end of the loops.
get_contract_filters_subj(v, s) ==
    IF s > Len(v.subj_list) THEN Return(v.filter_list)
    ELSE Goto("vzRsSubjFiltAtt", [v EXCEPT !.s = s])

\* The filter associations of subject v.s from index f on.
get_contract_filters_fltr(v, f) ==
    IF f > Len(v.fltrs) THEN get_contract_filters_subj(v, v.s + 1)
    ELSE Goto("vzEntry", [v EXCEPT !.f = f])

\* lines 202-209
fltr_dict(entry, fltr) ==
    [name |-> entry.name, dstport |-> entry.dToPort, etype |-> entry.etherT,
     prot |-> entry.prot, action |-> fltr.action]

get_contract_filters ==
    /\ At("get_contract_filters", "start")
    /\ Call("get", Subtree(TenantDn(Top.args.tenant, "brc", Top.args.contract_name), "vzSubj"),
            Under("vzSubj", "contract",
                  TenantDn(Top.args.tenant, "brc", Top.args.contract_name)),
            LAMBDA rows :
                get_contract_filters_subj(
                    [subj_list |-> [i \in 1..Len(rows) |-> rows[i].dn], s |-> 0,
                     fltrs |-> <<>>, f |-> 0, filter_list |-> <<>>], 1))

get_contract_filters_vzRsSubjFiltAtt ==
    /\ At("get_contract_filters", "vzRsSubjFiltAtt")
    /\ Call("get", Subtree(Top.v.subj_list[Top.v.s], "vzRsSubjFiltAtt"),
            Under("vzRsSubjFiltAtt", "subj", Top.v.subj_list[Top.v.s]),
            LAMBDA rows : get_contract_filters_fltr([Top.v EXCEPT !.fltrs = rows], 1))

get_contract_filters_vzEntry ==
    /\ At("get_contract_filters", "vzEntry")
    /\ Call("get", Subtree(Top.v.fltrs[Top.v.f].tDn, "vzEntry"),
            Under("vzEntry", "filter", Top.v.fltrs[Top.v.f].tDn),
            LAMBDA rows :
                get_contract_filters_fltr(
                    [Top.v EXCEPT !.filter_list =
                        @ \o [i \in 1..Len(rows) |-> fltr_dict(rows[i], Top.v.fltrs[Top.v.f])]],
                    Top.v.f + 1))

\* lines 335-342: one record for each name; a later row of the same name
\* overwrites the five fields.  keys is the dict's order of insertion.
get_bds_identity(rows) ==
    LET F[i \in 0..Len(rows)] ==
            IF i = 0 THEN [keys |-> <<>>, dict |-> <<>>]
            ELSE LET name == rows[i].name
                     old == IF name \in DOMAIN F[i - 1].dict
                            THEN F[i - 1].dict[name] ELSE <<>>
                 IN  [keys |-> IF name \in DOMAIN F[i - 1].dict THEN F[i - 1].keys
                               ELSE Append(F[i - 1].keys, name),
                      dict |-> Put(F[i - 1].dict, name,
                                   Put(Put(Put(Put(Put(old,
                                       "tenant", tenant_from_dn(rows[i].dn)),
                                       "description", rows[i].descr),
                                       "unicast_routing", rows[i].unicastRoute),
                                       "mac", rows[i].mac),
                                       "l2unicast", rows[i].unkMacUcastAct))]
    IN  F[Len(rows)]

\* lines 349-355: the loop over the fvRsCtx rows of one bridge domain.
get_bds_vrf(value, rows) ==
    LET F[i \in 0..Len(rows)] ==
            IF i = 0 THEN value
            ELSE Put(Put(F[i - 1], "vrf",
                         IF rows[i].tnFvCtxName = Missing THEN "default"
                         ELSE rows[i].tnFvCtxName),
                     "vrf_tenant",
                     IF rows[i].tDn = NoDn THEN NoneStr
                     ELSE tenant_from_dn(rows[i].tDn))
    IN  F[Len(rows)]

\* lines 360-366
get_bds_subnets(value, rows) ==
    IF rows = <<>> THEN value
    ELSE Put(value, "subnets",
             (IF "subnets" \in DOMAIN value THEN value.subnets ELSE <<>>) \o
             [i \in 1..Len(rows) |-> <<rows[i].ip, rows[i].scope>>])

get_bds_uri(tenant) ==
    IF tenant = All THEN Class("fvBD")
    ELSE Children(Dn(tenant, "", ""), "fvBD")

\* The bridge domains the query names: all, or those of the tenant.
BdRows(tenant) ==
    IF tenant = All THEN remote.fvBD
    ELSE SelectSeq(remote.fvBD, LAMBDA r : r.dn.tn = tenant)

\* The keys from index k on: the next query, or the end of the loop.
get_bds_item(v, k) ==
    IF k > Len(v.keys) THEN Return(v.bd_dict)
    ELSE Goto("fvRsCtx", [v EXCEPT !.k = k])

\* uni/tn-{value['tenant']}/BD-{key}
get_bds_dn(v) == TenantDn(v.bd_dict[v.keys[v.k]].tenant, "BD", v.keys[v.k])

get_bds ==
    /\ At("get_bds", "start")
    /\ Call("get", get_bds_uri(Top.args.tenant), BdRows(Top.args.tenant),
            LAMBDA rows :
                get_bds_item([keys |-> get_bds_identity(rows).keys,
                              bd_dict |-> get_bds_identity(rows).dict, k |-> 0], 1))

get_bds_fvRsCtx ==
    /\ At("get_bds", "fvRsCtx")
    /\ Call("get", Children(get_bds_dn(Top.v), "fvRsCtx"),
            Under("fvRsCtx", "bd", get_bds_dn(Top.v)),
            LAMBDA rows :
                Goto("fvSubnet",
                     [Top.v EXCEPT !.bd_dict =
                         Put(@, Top.v.keys[Top.v.k],
                             get_bds_vrf(@[Top.v.keys[Top.v.k]], rows))]))

get_bds_fvSubnet ==
    /\ At("get_bds", "fvSubnet")
    /\ Call("get", Children(get_bds_dn(Top.v), "fvSubnet"),
            Under("fvSubnet", "bd", get_bds_dn(Top.v)),
            LAMBDA rows :
                get_bds_item(
                    [Top.v EXCEPT !.bd_dict =
                        Put(@, Top.v.keys[Top.v.k],
                            get_bds_subnets(@[Top.v.keys[Top.v.k]], rows))],
                    Top.v.k + 1))

\* The children of an EPG: its relations, and its static path bindings.
EpgChildren(dn) ==
    Under("fvRs", "epg", dn) \o
    [i \in 1..Len(Under("fvRsPathAtt", "epg", dn)) |->
        [epg |-> dn, cls |-> "fvRsPathAtt", name |-> "", tDn |-> NoDn]]

\* lines 281-290
epg_dict_new(epg) ==
    [bd |-> NoneStr, subnets |-> List(<<>>), provided_contracts |-> <<>>,
     consumed_contracts |-> <<>>, domains |-> <<>>, static_paths |-> <<>>,
     name |-> epg]

\* lines 291-313: the children from index i on.  The first one of a class
\* the loop knows decides the next call; the others are passed over.
get_epg_details_obj(v, i, args) ==
    LET F[k \in 1..(Len(v.rows) + 1)] ==
            IF k > Len(v.rows) THEN Return(v.epg_dict)
            ELSE LET obj == v.rows[k]
                     at == [v EXCEPT !.i = k]
                 IN  CASE obj.cls = "fvRsBd" ->
                            Enter([at EXCEPT !.epg_dict.bd = obj.name],
                                  "get_bd_subnet",
                                  [tenant |-> args.tenant, bd |-> obj.name])
                       [] obj.cls \in {"fvRsCons", "fvRsProv"} ->
                            Enter(at, "get_contract_filters",
                                  [tenant |-> args.tenant, contract_name |-> obj.name])
                       [] obj.cls = "fvRsDomAtt" -> Goto("physDomP", at)
                       [] obj.cls = "fvRsPathAtt" ->
                            Enter(at, "get_static_path",
                                  [tenant |-> args.tenant, ap |-> args.ap,
                                   epg |-> args.epg])
                       [] OTHER -> F[k + 1]
    IN  F[i]

get_epg_details ==
    /\ At("get_epg_details", "start")
    /\ Call("get", AllChildren(Dn(Top.args.tenant, Top.args.ap, Top.args.epg)),
            EpgChildren(Dn(Top.args.tenant, Top.args.ap, Top.args.epg)),
            LAMBDA rows :
                get_epg_details_obj([rows |-> rows, i |-> 0,
                                     epg_dict |-> epg_dict_new(Top.args.epg),
                                     ret |-> <<>>], 1, Top.args))

\* The value of get_bd_subnet, get_contract_filters or get_static_path goes
\* into the record, and the loop goes on.
get_epg_details_returned ==
    /\ At("get_epg_details", "returned")
    /\ LET obj == Top.v.rows[Top.v.i]
           contract == [name |-> obj.name, filters |-> Top.v.ret]
           epg_dict ==
               CASE obj.cls = "fvRsBd" -> [Top.v.epg_dict EXCEPT !.subnets = Top.v.ret]
                 [] obj.cls = "fvRsCons" ->
                       [Top.v.epg_dict EXCEPT !.consumed_contracts = Append(@, contract)]
                 [] obj.cls = "fvRsProv" ->
                       [Top.v.epg_dict EXCEPT !.provided_contracts = Append(@, contract)]
                 [] obj.cls = "fvRsPathAtt" ->
                       [Top.v.epg_dict EXCEPT !.static_paths = Top.v.ret]
           after == get_epg_details_obj(
                        [Top.v EXCEPT !.epg_dict = epg_dict, !.ret = <<>>],
                        Top.v.i + 1, Top.args)
       IN  /\ stack' = after.stack
           /\ outcome' = after.outcome
    /\ UNCHANGED <<config, cookies, last_login, refresh_timeout, now, remote,
                   wire, lastcall, db>>

\* lines 310-311: the domain of an fvRsDomAtt.  [0] raises IndexError on no
\* row, and ["physDomP"] raises KeyError on a domain of another class.
get_epg_details_physDomP ==
    /\ At("get_epg_details", "physDomP")
    /\ Call("get", Mo(Top.v.rows[Top.v.i].tDn),
            Under("domains", "dn", Top.v.rows[Top.v.i].tDn),
            LAMBDA rows :
                IF rows = <<>> THEN Raise(IndexError, Frames)
                ELSE IF rows[1].cls # "physDomP" THEN Raise(KeyError, Frames)
                ELSE get_epg_details_obj(
                        [Top.v EXCEPT !.epg_dict.domains = Append(@, rows[1].name)],
                        Top.v.i + 1, Top.args))

\* A bridge domain row.
FvBD(tn, name) ==
    [dn |-> TenantDn(tn, "BD", name), name |-> name, descr |-> "",
     unicastRoute |-> "yes", mac |-> "00:22:BD:F8:19:FF",
     unkMacUcastAct |-> "proxy"]

\* The policy classes of the specifications that do not vary them: a bridge
\* domain bd1 in each tenant, a contract c1 of one subject, one filter and
\* one entry, and an EPG that has one relation of each class.
SmallPolicy ==
    [fvBD |-> <<FvBD("A", "bd1"), FvBD("B", "bd1")>>,
     fvRsCtx |-> <<[bd |-> TenantDn("A", "BD", "bd1"), tnFvCtxName |-> "v1",
                    tDn |-> TenantDn("A", "ctx", "v1")],
                   [bd |-> TenantDn("B", "BD", "bd1"), tnFvCtxName |-> Missing,
                    tDn |-> NoDn]>>,
     fvSubnet |-> <<[bd |-> TenantDn("A", "BD", "bd1"), ip |-> "10.1.1.1/24",
                     scope |-> "private"]>>,
     vzSubj |-> <<[contract |-> TenantDn("A", "brc", "c1"),
                   dn |-> TenantDn("A", "subj", "s1")]>>,
     vzRsSubjFiltAtt |-> <<[subj |-> TenantDn("A", "subj", "s1"),
                            tDn |-> TenantDn("A", "flt", "f1"), action |-> "permit"]>>,
     vzEntry |-> <<[filter |-> TenantDn("A", "flt", "f1"), name |-> "http",
                    dToPort |-> "80", etherT |-> "ip", prot |-> "tcp"]>>,
     fvRs |-> <<[epg |-> Dn("A", "x", "e"), cls |-> "fvRsBd", name |-> "bd1",
                 tDn |-> NoDn],
                [epg |-> Dn("A", "x", "e"), cls |-> "fvRsCons", name |-> "c1",
                 tDn |-> NoDn],
                [epg |-> Dn("A", "x", "e"), cls |-> "fvRsProv", name |-> "c1",
                 tDn |-> NoDn],
                [epg |-> Dn("A", "x", "e"), cls |-> "fvRsDomAtt", name |-> "",
                 tDn |-> TenantDn("", "phys", "dom1")]>>,
     domains |-> <<[dn |-> TenantDn("", "phys", "dom1"), cls |-> "physDomP",
                    name |-> "dom1"]>>]

(* --------------------------- the audit tables --------------------------- *)

\* SQL NULL in a foreign key column.
Null == 0

\* The on_delete of each foreign key of the migration.
Sync_job_result_set_null == "SET_NULL"

Sync_job_result == "PROTECT"

SyncLogEntry_changed_object_type == "PROTECT"

SyncLogEntry_object_change_do_nothing == "DO_NOTHING"

SyncLogEntry_object_change == "SET_NULL"

SyncLogEntry_sync_do_nothing == "DO_NOTHING"

SyncLogEntry_sync == "CASCADE"

NoOp == [op |-> "", id |-> Null, ok |-> TRUE, referrers |-> 0]

\* The tables after the migration: all empty.  made holds the primary keys
\* used so far (a key is never used twice), last the last delete.
EmptyDb ==
    [syncs |-> {}, entries |-> {}, jobresults |-> {}, contenttypes |-> {},
     objectchanges |-> {},
     made |-> [syncs |-> 0, entries |-> 0, jobresults |-> {},
               contenttypes |-> {}, objectchanges |-> {}],
     last |-> NoOp]

Ids(rows) == { r.id : r \in rows }

\* What deleting the row id does to the rows that refer to it by field,
\* for a foreign key declared with on_delete = option.
OnDelete(option, rows, field, id) ==
    CASE option = "CASCADE" ->
            [protected |-> FALSE, rows |-> { r \in rows : r[field] # id }]
      [] option = "SET_NULL" ->
            [protected |-> FALSE,
             rows |-> { IF r[field] = id THEN [r EXCEPT ![field] = Null] ELSE r :
                        r \in rows }]
      [] option = "PROTECT" ->
            [protected |-> \E r \in rows : r[field] = id, rows |-> rows]
      [] option = "DO_NOTHING" ->
            [protected |-> FALSE, rows |-> rows]

Referrers(rows, field, id) == Cardinality({ r \in rows : r[field] = id })

DbStep(d) ==
    /\ db' = d
    /\ UNCHANGED <<config, cookies, last_login, refresh_timeout, now, remote,
                   stack, wire, outcome, lastcall>>

\* A row of extras.jobresult, contenttypes.contenttype or extras.objectchange
\* appears.
CreateTarget ==
    \E table \in {"jobresults", "contenttypes", "objectchanges"} :
        \E id \in TargetIds \ db.made[table] :
            DbStep([db EXCEPT ![table] = @ \cup {id},
                              !.made[table] = @ \cup {id}, !.last = NoOp])

\* Sync.objects.create(job_result=...)
CreateSync ==
    \E j \in db.jobresults \cup {Null} :
        /\ db.made.syncs < MaxSyncs
        /\ DbStep([db EXCEPT !.syncs = @ \cup {[id |-> db.made.syncs + 1,
                                                job_result |-> j]},
                             !.made.syncs = @ + 1, !.last = NoOp])

\* SyncLogEntry.objects.create(sync=..., changed_object_type=..., object_change=...)
CreateLogEntry ==
    \E s \in Ids(db.syncs), c \in db.contenttypes \cup {Null},
       o \in db.objectchanges \cup {Null} :
        /\ db.made.entries < MaxEntries
        /\ DbStep([db EXCEPT !.entries = @ \cup {[id |-> db.made.entries + 1,
                                                  sync |-> s,
                                                  changed_object_type |-> c,
                                                  object_change |-> o]},
                             !.made.entries = @ + 1, !.last = NoOp])

\* sync.delete(): the log entries follow their Sync.
DeleteSync ==
    \E s \in db.syncs :
        LET logs == OnDelete(SyncLogEntry_sync, db.entries, "sync", s.id)
            done == [op |-> "delete_sync", id |-> s.id, ok |-> ~logs.protected,
                     referrers |-> Referrers(db.entries, "sync", s.id)]
        IN  IF logs.protected
            THEN DbStep([db EXCEPT !.last = done])
            ELSE DbStep([db EXCEPT !.syncs = @ \ {s}, !.entries = logs.rows,
                                   !.last = done])

\* job_result.delete()
DeleteJobResult ==
    \E j \in db.jobresults :
        LET refs == OnDelete(Sync_job_result, db.syncs, "job_result", j)
            done == [op |-> "delete_jobresult", id |-> j, ok |-> ~refs.protected,
                     referrers |-> Referrers(db.syncs, "job_result", j)]
        IN  IF refs.protected
            THEN DbStep([db EXCEPT !.last = done])
            ELSE DbStep([db EXCEPT !.jobresults = @ \ {j}, !.syncs = refs.rows,
                                   !.last = done])

\* content_type.delete()
DeleteContentType ==
    \E c \in db.contenttypes :
        LET refs == OnDelete(SyncLogEntry_changed_object_type, db.entries,
                             "changed_object_type", c)
            done == [op |-> "delete_contenttype", id |-> c, ok |-> ~refs.protected,
                     referrers |-> Referrers(db.entries, "changed_object_type", c)]
        IN  IF refs.protected
            THEN DbStep([db EXCEPT !.last = done])
            ELSE DbStep([db EXCEPT !.contenttypes = @ \ {c},
                                   !.entries = refs.rows, !.last = done])

\* object_change.delete()
DeleteObjectChange ==
    \E o \in db.objectchanges :
        LET refs == OnDelete(SyncLogEntry_object_change, db.entries,
                             "object_change", o)
            done == [op |-> "delete_objectchange", id |-> o, ok |-> ~refs.protected,
                     referrers |-> Referrers(db.entries, "object_change", o)]
        IN  IF refs.protected
            THEN DbStep([db EXCEPT !.last = done])
            ELSE DbStep([db EXCEPT !.objectchanges = @ \ {o},
                                   !.entries = refs.rows, !.last = done])

(* ------------------------------ the client ------------------------------ *)

Construct ==
    /\ config = [username |-> "admin", password |-> "secret",
                 base_uri |-> "https://apic", verify |-> FALSE, site |-> "S"]
    /\ cookies = NoCookies
    /\ last_login = None
    /\ refresh_timeout = None
    /\ now = 0
    /\ stack = <<>>
    /\ wire = <<>>
    /\ outcome = NoOutcome
    /\ lastcall = NoCall
    /\ db = EmptyDb

\* The controller's objects: the tree, the node classes, the path classes
\* and the policy classes.
Fabric(tree, nodes, paths) == tree @@ nodes @@ paths @@ SmallPolicy

SmallFabric == Fabric(SmallTree, NodeFabric(SmallAttrs), SmallPaths)

Init ==
    /\ Construct
    /\ remote = SmallFabric

\* The arguments of the calls: the EPG A/x/e, the contract c1 of tenant A,
\* and the node 101.
EpgArgs == [tenant |-> "A", ap |-> "x", epg |-> "e"]

ContractArgs == [tenant |-> "A", contract_name |-> "c1"]

NodeArgs == [serial_nbr |-> "SN1", node_id |-> "101", name |-> "leaf1"]

UserCall ==
    \/ Invoke("get_tenants", <<>>)
    \/ Invoke("register_node", NodeArgs)

Next ==
    \/ Tick
    \/ UserCall
    \/ get_tenants
    \/ register_node

Spec == Init /\ [][Next]_vars

StaticPathSteps ==
    \/ get_static_path
    \/ get_static_path_fabricPathEpCont
    \/ get_static_path_fabricPathEp
    \/ get_static_path_fabricProtPathEpCont
    \/ get_static_path_polgrp
    \/ get_static_path_infraRtAccBaseGrp
    \/ get_static_path_infraPortBlk

NodeSteps ==
    \/ get_nodes
    \/ get_nodes_topSystem
    \/ get_nodes_eqptExtCh
    \/ get_controllers
    \/ get_controllers_topSystem

PolicySteps ==
    \/ get_bd_subnet
    \/ get_contract_filters
    \/ get_contract_filters_vzRsSubjFiltAtt
    \/ get_contract_filters_vzEntry
    \/ get_bds
    \/ get_bds_fvRsCtx
    \/ get_bds_fvSubnet
    \/ get_epg_details
    \/ get_epg_details_returned
    \/ get_epg_details_physDomP

\* The operations that make several calls.
OpsCall ==
    \/ Invoke("get_contract_filters", ContractArgs)
    \/ \E tenant \in TenantNames \cup {All} : Invoke("get_bds", [tenant |-> tenant])
    \/ Invoke("get_static_path", EpgArgs)
    \/ Invoke("get_epg_details", EpgArgs)
    \/ Invoke("get_nodes", <<>>)
    \/ Invoke("get_controllers", <<>>)

NextOps ==
    \/ Tick
    \/ OpsCall
    \/ NodeSteps
    \/ PolicySteps
    \/ StaticPathSteps

\* The operations that make several calls, while the token ages.
SpecOps == Init /\ [][NextOps]_vars

InitNodes ==
    /\ Construct
    /\ \E a \in TopAttrs : remote = Fabric(SmallTree, NodeFabric(a), SmallPaths)

NextNodes ==
    \/ Invoke("get_nodes", <<>>)
    \/ Invoke("get_controllers", <<>>)
    \/ NodeSteps

\* The two node listings against every combination of address attributes.
SpecNodes == InitNodes /\ [][NextNodes]_vars

InitPaths ==
    /\ Construct
    /\ \E bindings \in BindingLists, protcont \in ProtContainers :
           remote = Fabric(SmallTree, NodeFabric(SmallAttrs),
                           PathFabric(bindings, protcont))

NextPaths ==
    \/ Invoke("get_static_path", EpgArgs)
    \/ StaticPathSteps

\* get_static_path against every list of bindings and every container.
SpecPaths == InitPaths /\ [][NextPaths]_vars

InitSelectors ==
    /\ Construct
    /\ \E names \in SelectorLists :
           remote = Fabric(SmallTree, NodeFabric(SmallAttrs), SelectorFabric(names))

\* get_static_path against every list of selector associations.
SpecSelectors == InitSelectors /\ [][NextPaths]_vars

\* The EPG A/x/e with any of its four relations and any list of bindings.
InitEpg ==
    /\ Construct
    /\ \E bindings \in BindingLists, S \in SUBSET (1..Len(SmallPolicy.fvRs)) :
           remote = [Fabric(SmallTree, NodeFabric(SmallAttrs),
                            PathFabric(bindings, SmallPaths.fabricProtPathEpCont))
                        EXCEPT !.fvRs = Pick(SmallPolicy.fvRs, S)]

NextEpg ==
    \/ Invoke("get_epg_details", EpgArgs)
    \/ get_epg_details
    \/ get_epg_details_returned
    \/ get_epg_details_physDomP
    \/ get_bd_subnet
    \/ get_contract_filters
    \/ get_contract_filters_vzRsSubjFiltAtt
    \/ get_contract_filters_vzEntry
    \/ StaticPathSteps

\* get_epg_details against every set of relations and every list of bindings.
SpecEpg == InitEpg /\ [][NextEpg]_vars

InitMerge ==
    /\ Construct
    /\ \E nodes \in MergeFabrics : remote = Fabric(SmallTree, nodes, SmallPaths)

\* The two node listings against every set of identity, management and
\* extender rows.
SpecMerge == InitMerge /\ [][NextNodes]_vars

\* The bridge domains that the controller can have: bd1 in both tenants, and
\* bd2 in A.
BdUniverse == <<FvBD("A", "bd1"), FvBD("A", "bd2"), FvBD("B", "bd1")>>

\* The policy classes with the bridge domains bds, where every bridge domain
\* of the universe has a VRF vrf<tenant> of its tenant and a subnet
\* <tenant>-<name> of its own.
BdFabric(bds) ==
    [SmallPolicy EXCEPT
        !.fvBD = bds,
        !.fvRsCtx = [i \in 1..Len(BdUniverse) |->
                        [bd |-> BdUniverse[i].dn,
                         tnFvCtxName |-> "vrf" \o BdUniverse[i].dn.tn,
                         tDn |-> TenantDn(BdUniverse[i].dn.tn, "ctx",
                                          "vrf" \o BdUniverse[i].dn.tn)]],
        !.fvSubnet = [i \in 1..Len(BdUniverse) |->
                        [bd |-> BdUniverse[i].dn,
                         ip |-> BdUniverse[i].dn.tn \o "-" \o BdUniverse[i].name,
                         scope |-> "private"]]]

InitBds ==
    /\ Construct
    /\ \E S \in SUBSET (1..Len(BdUniverse)) :
           remote = BdFabric(Pick(BdUniverse, S)) @@ SmallFabric

NextBds ==
    \/ \E tenant \in TenantNames \cup {All} : Invoke("get_bds", [tenant |-> tenant])
    \/ get_bds
    \/ get_bds_fvRsCtx
    \/ get_bds_fvSubnet

\* get_bds against every set of bridge domains.
SpecBds == InitBds /\ [][NextBds]_vars

InitListing ==
    /\ Construct
    /\ \E tree \in Fabrics : remote = Fabric(tree, NodeFabric(SmallAttrs), SmallPaths)

\* The arguments of get_epgs: each scope of tenant and application profile.
EpgsArgs ==
    { [tenant |-> tenant, ap |-> ap] :
        tenant \in TenantNames \cup {All}, ap \in ApNames \cup {All} }

NextListing ==
    \/ \E tenant \in TenantNames \cup {All} : Invoke("get_aps", [tenant |-> tenant])
    \/ \E args \in EpgsArgs : Invoke("get_epgs", args)
    \/ get_aps
    \/ get_epgs

\* The two scoped listings against every tree of the controller.
SpecListing == InitListing /\ [][NextListing]_vars

NextAudit ==
    \/ CreateTarget
    \/ CreateSync
    \/ CreateLogEntry
    \/ DeleteSync
    \/ DeleteJobResult
    \/ DeleteContentType
    \/ DeleteObjectChange

\* The audit tables under every order of inserts and deletes.
SpecAudit == Init /\ [][NextAudit]_vars

(* ------------------------------- claims --------------------------------- *)

Logins(sent) == Cardinality({ i \in DOMAIN sent : sent[i].kind = "login" })

Called == lastcall.fn # ""

\* Seconds from the last successful login to the call, as the call saw them.
Elapsed(c) == c.at - c.last_login

\* C1: a call of _get or _post made when no login has happened yet, or when
\* the time since the last successful login exceeds the declared refresh
\* window, sends exactly one login request and sends it first; a call made
\* within the window sends no login request.
C1_TokenRefresh ==
    Called =>
        IF lastcall.last_login = None
              \/ Elapsed(lastcall) > lastcall.refresh_timeout
        THEN /\ Logins(lastcall.sent) = 1
             /\ lastcall.sent[1].kind = "login"
        ELSE Logins(lastcall.sent) = 0

\* A call that found the window of an earlier login exceeded, logged in
\* again and then sent its data request.
C1_Witness ==
    /\ Called
    /\ lastcall.last_login # None
    /\ Elapsed(lastcall) > lastcall.refresh_timeout
    /\ Len(lastcall.sent) = 2
    /\ lastcall.sent[2].kind = "data"

\* A call that sent its data request with no login before it.
DataWithoutLogin ==
    /\ Called
    /\ lastcall.sent # <<>>
    /\ lastcall.sent[1].kind = "data"

\* C2, as stated: a data request goes out without a login in the same call
\* only if a login has occurred and the time since it is strictly below the
\* declared lifetime.
C2_StrictlyBelowLifetime ==
    DataWithoutLogin =>
        /\ lastcall.last_login # None
        /\ Elapsed(lastcall) < lastcall.refresh_timeout

\* C2, amended: a data request goes out without a login in the same call only
\* if a login has occurred and the time since it does not exceed the declared
\* lifetime; at exactly the lifetime the call sends no login.
C2_NotBeyondLifetime ==
    /\ DataWithoutLogin =>
          /\ lastcall.last_login # None
          /\ Elapsed(lastcall) <= lastcall.refresh_timeout
    /\ (Called /\ lastcall.last_login # None
           /\ Elapsed(lastcall) = lastcall.refresh_timeout)
          => Logins(lastcall.sent) = 0

\* A data request sent on the old token exactly one lifetime after the login.
C2_Witness ==
    /\ DataWithoutLogin
    /\ Elapsed(lastcall) = lastcall.refresh_timeout

LoginRefused ==
    /\ Called
    /\ \E i \in DOMAIN lastcall.sent :
          lastcall.sent[i].kind = "login" /\ lastcall.sent[i].status = "fail"

\* C3: when the login of a call of _get or _post gets a non-success
\* response, that login is the only request the call sends (no data request,
\* no second login) and the call raises the HTTP error of the login response,
\* which ends the operation.
C3_LoginFailureAborts ==
    LoginRefused =>
        /\ Len(lastcall.sent) = 1
        /\ lastcall.error.type = "RequestHTTPError"
        /\ lastcall.error.response = "login"
        /\ stack = <<>>
        /\ outcome.status = "raised"
        /\ outcome.error = lastcall.error

\* A refresh after an earlier login whose login request is refused.
C3_Witness ==
    /\ LoginRefused
    /\ lastcall.last_login # None
    /\ outcome.status = "raised"

\* The extractor operation whose call failed: the caller of _get or _post.
InitiatingOperation == outcome.traceback[Len(outcome.traceback) - 1]

\* C5: an HTTP error names the operation that initiated the failing call:
\* the login operation when the failing response is the login's, and else
\* the extractor operation that made the call.
C5_ErrorNamesOperation ==
    (outcome.status = "raised" /\ outcome.error.type = "RequestHTTPError") =>
        IF outcome.error.response = "login"
        THEN outcome.error.calling_func \in {"login", "_login"}
        ELSE outcome.error.calling_func = InitiatingOperation

\* Every log entry refers to exactly one Sync row that exists.
NoOrphanEntry ==
    \A e \in db.entries : Cardinality({ s \in db.syncs : s.id = e.sync }) = 1

\* A step that removes a Sync removes every entry of it and leaves the
\* entries of the Syncs that stay as they were.
CascadeStep ==
    Ids(db'.syncs) # Ids(db.syncs) =>
        /\ \A e \in db'.entries : e.sync \in Ids(db'.syncs)
        /\ \A e \in db.entries : e.sync \in Ids(db'.syncs) => e \in db'.entries

\* C6: after any sequence of inserts and deletes every SyncLogEntry refers to
\* exactly one existing Sync; deleting a Sync deletes all its entries, leaves
\* none that refers to a missing Sync, and leaves the other entries untouched.
C6_CascadeLeavesNoOrphan == [](NoOrphanEntry) /\ [][CascadeStep]_vars

\* A Sync with two entries has just been deleted, and its entries with it.
C6_Witness ==
    /\ db.last.op = "delete_sync"
    /\ db.last.ok
    /\ db.last.referrers = 2
    /\ db.last.id \notin Ids(db.syncs)
    /\ db.entries = {}

DeletedTarget == db.last.op \in {"delete_jobresult", "delete_contenttype", "delete_objectchange"}

TargetTable ==
    CASE db.last.op = "delete_jobresult" -> db.jobresults
      [] db.last.op = "delete_contenttype" -> db.contenttypes
      [] db.last.op = "delete_objectchange" -> db.objectchanges

\* No foreign key refers to a row that is gone.
NoDanglingReference ==
    /\ \A s \in db.syncs : s.job_result \in db.jobresults \cup {Null}
    /\ \A e \in db.entries :
          /\ e.changed_object_type \in db.contenttypes \cup {Null}
          /\ e.object_change \in db.objectchanges \cup {Null}

TargetDeletes ==
    /\ NoDanglingReference
    /\ db.last.op = "delete_objectchange" =>
          db.last.ok /\ db.last.id \notin db.objectchanges
    /\ db.last.op \in {"delete_jobresult", "delete_contenttype"} =>
          /\ db.last.ok <=> db.last.referrers = 0
          /\ db.last.ok <=> db.last.id \notin TargetTable

\* The referring rows stay: a Sync keeps its job reference, an entry its
\* changed-object type, and an entry loses only an object_change reference.
ReferrersKept ==
    /\ \A x \in db.syncs :
          x \in db'.syncs \/ (db'.last.op = "delete_sync" /\ db'.last.id = x.id)
    /\ \A e \in db.entries :
          \/ e.sync \notin Ids(db'.syncs)
          \/ e \in db'.entries
          \/ /\ [e EXCEPT !.object_change = Null] \in db'.entries
             /\ e.object_change \notin db'.objectchanges

MergedRows(fn) ==
    SelectSeq(remote.topSystem,
              LAMBDA r : IF fn = "get_nodes" THEN r.role # "controller"
                         ELSE r.role = "controller")

\* The source of the management address in the fallback order.
MgmtSource(r) ==
    IF r.oobMgmtAddr # ZeroAddr THEN "oob"
    ELSE IF r.address # ZeroAddr /\ r.tepPool # EmptyStr THEN "inband"
    ELSE "none"

\* The management address the fallback order gives.
FallbackAddr(r) ==
    CASE MgmtSource(r) = "oob" -> Cidr(r.oobMgmtAddr.ip, r.oobMgmtAddrMask)
      [] MgmtSource(r) = "inband" -> Cidr(r.address.ip, ip_network(r.tepPool).len)
      [] OTHER -> EmptyStr

\* The subnets that go with the source of the management address: the
\* network of the out-of-band address; the tunnel endpoint pool or the
\* network of the in-band address; none.
FallbackSubnets(r) ==
    CASE MgmtSource(r) = "oob" -> {ip_network(FallbackAddr(r))}
      [] MgmtSource(r) = "inband" -> {r.tepPool, ip_network(FallbackAddr(r))}
      [] OTHER -> {EmptyStr}

NodeListed == outcome.status = "returned" /\ outcome.fn \in {"get_nodes", "get_controllers"}

\* C9: in every record that get_nodes or get_controllers returns for a
\* topSystem row, the management address is the one the fallback order gives
\* (out-of-band, else in-band with the pool's prefix length, else empty), the
\* subnet is the one that goes with the source that supplied the address, and
\* the two listings derive the same address and subnet from the same row.
C9_SubnetFollowsAddressSource ==
    NodeListed =>
        \A i \in 1..Len(MergedRows(outcome.fn)) :
            LET r == MergedRows(outcome.fn)[i]
                rec == outcome.value[r.id]
            IN  /\ rec.oob_ip = FallbackAddr(r)
                /\ rec.subnet \in FallbackSubnets(r)
                /\ get_nodes_mgmt_addr(r) = get_controllers_mgmt_addr(r)
                /\ get_nodes_subnet(r, rec.oob_ip) = get_controllers_subnet(r, rec.oob_ip)


(* ---- C10 ---- *)

\* What the unscoped listings return for the controller's tree.
UnscopedAps == Range(ap_list(TreeAnswer(get_aps_uri(All))))

UnscopedEpgs == Range(epg_list(All, TreeAnswer(get_epgs_uri(All, All))))

ScopedListing(fn) ==
    outcome.status = "returned" /\ outcome.fn = fn /\ outcome.args.tenant # All

\* C10: every item that get_aps(t) or get_epgs(t, ap) returns for a concrete
\* tenant t (ap concrete or all) has tenant t, and is among the items that
\* the unscoped listing returns for the same tree.
C10_ScopedListingIsSubset ==
    /\ ScopedListing("get_aps") =>
          \A item \in Range(outcome.value) :
              item.tenant = outcome.args.tenant /\ item \in UnscopedAps
    /\ ScopedListing("get_epgs") =>
          \A item \in Range(outcome.value) :
              item.tenant = outcome.args.tenant /\ item \in UnscopedEpgs

\* get_epgs("A", "all") returned the EPGs of A out of a class listing that
\* holds EPGs of B as well.
C10_Witness ==
    /\ ScopedListing("get_epgs")
    /\ outcome.args = [tenant |-> "A", ap |-> All]
    /\ outcome.value # <<>>
    /\ \E e \in UnscopedEpgs : e.tenant = "B"
    /\ Range(outcome.value) # UnscopedEpgs


(* ---- C8 ---- *)

\* The bindings of the EPG that get_static_path makes a record for, in the
\* order of the controller's answer.
Emitting ==
    SelectSeq(Under("fvRsPathAtt", "epg",
                    Dn(outcome.args.tenant, outcome.args.ap, outcome.args.epg)),
              LAMBDA b : HasPaths(b.tDn))

\* The rows of the node-pair container of a binding.
ContainerRows(b) == Under("fabricProtPathEpCont", "dn", ContainerDn(b.tDn))

StaticPathReturned == outcome.status = "returned" /\ outcome.fn = "get_static_path"

\* C8: get_static_path returns one record for each binding of a path shape;
\* for a binding of the redundant shape whose container has a row, the nodes
\* are those of the row and the type is PC if they are equal and vPC if they
\* differ; if the container has no row the record has type, node_a and node_b
\* null, and the missing container raises nothing; for a binding of the
\* single-path shape the type is non-PC.
C8_StaticPathType ==
    /\ outcome.error # IndexError
    /\ StaticPathReturned =>
        /\ Len(outcome.value) = Len(Emitting)
        /\ \A i \in 1..Len(Emitting) :
              LET b == Emitting[i]
                  rec == outcome.value[i]
              IN  IF ~HasProtpaths(b.tDn) THEN rec.type = "non-PC"
                  ELSE IF ContainerRows(b) # <<>>
                  THEN /\ rec.node_a = ContainerRows(b)[1].nodeAId
                       /\ rec.node_b = ContainerRows(b)[1].nodeBId
                       /\ rec.type = IF rec.node_a = rec.node_b THEN "PC" ELSE "vPC"
                  ELSE rec.type = NoneStr /\ rec.node_a = NoneStr /\ rec.node_b = NoneStr

\* A listing returned with a port-channel and a record without container.
C8_Witness ==
    /\ StaticPathReturned
    /\ \E i, j \in 1..Len(outcome.value) :
          /\ outcome.value[i].type = "PC"
          /\ ContainerRows(Emitting[i])[1].nodeAId = "102"
          /\ outcome.value[j].type = NoneStr
          /\ ContainerRows(Emitting[j]) = <<>>


(* ---- C4 ---- *)

MultiCallOps ==
    {"get_contract_filters", "get_bds", "get_static_path", "get_epg_details",
     "get_nodes", "get_controllers"}

\* The error that a request which did not succeed raises.
ErrorOf(req) ==
    [type |-> IF req.status = "connerr" THEN "RequestConnectError"
              ELSE "RequestHTTPError",
     response |-> req.kind]

\* C4: in an operation of several calls, a request that ends in a connection
\* error or a non-success response is the last request the operation sends
\* (none follows it, and it is not sent again), and the operation has ended by
\* raising the error of that request, without a value.
C4_FailureAborts ==
    \A i \in 1..Len(wire) :
        wire[i].status # "ok" =>
            /\ i = Len(wire)
            /\ stack = <<>>
            /\ outcome.fn \in MultiCallOps
            /\ outcome.status = "raised"
            /\ outcome.value = <<>>
            /\ outcome.error.type = ErrorOf(wire[i]).type
            /\ outcome.error.response = ErrorOf(wire[i]).response

\* get_epg_details ended by a connection error of a data request that
\* get_static_path made for it, after other requests had succeeded.
C4_Witness ==
    /\ outcome.status = "raised"
    /\ outcome.fn = "get_epg_details"
    /\ outcome.traceback = <<"get_epg_details", "get_static_path", "_get">>
    /\ wire[1].kind = "login"
    /\ wire[Len(wire)].status = "connerr"
    /\ wire[Len(wire)].kind = "data"
    /\ \A i \in 1..(Len(wire) - 1) : wire[i].status = "ok"


(* ---- C11 ---- *)

\* The requests that this step puts on the wire.
SentNow == SubSeq(wire', Len(wire) + 1, Len(wire'))

\* This step sends a login that gets a success response.
LoginSucceedsNow ==
    /\ Len(wire') > Len(wire)
    /\ \E i \in 1..Len(SentNow) :
          SentNow[i].kind = "login" /\ SentNow[i].status = "ok"

SessionFrame ==
    /\ config' = config
    /\ IF LoginSucceedsNow
       THEN /\ cookies' \in Tokens
            /\ last_login' = now
            /\ refresh_timeout' \in Lifetimes
       ELSE UNCHANGED <<cookies, last_login, refresh_timeout>>

\* C11: a step in which a login gets a success response sets the cookie, the
\* time of the login and the token's lifetime together; every other step (a
\* refused login, a login or data request that ends in a connection error,
\* a data request with any response, and every step without a request)
\* leaves the three as they are; username, password, base URI, TLS flag and
\* site never change.
C11_SessionFrame == [][SessionFrame]_vars

\* A second login succeeded: the session holds the time of that login, and
\* the call before it had left the session of the first login in place.
C11_Witness ==
    /\ Called
    /\ lastcall.last_login # None
    /\ last_login = lastcall.at
    /\ last_login > lastcall.last_login
    /\ \E i \in DOMAIN lastcall.sent :
          lastcall.sent[i].kind = "login" /\ lastcall.sent[i].status = "ok"


(* ---- C12 ---- *)

\* The selector names of the associations of a binding's policy group, in
\* the order of the controller's answer, and the ports of each association.
Associations(b) ==
    LET polgrp == Under("fabricPathEp", "dn", b.tDn)[1].name
        rows == Under("infraRtAccBaseGrp", "bundle", polgrp)
    IN  [i \in 1..Len(rows) |->
            [ifselector |-> ifselector_of(rows[i].tDn),
             intfs |-> [n \in 1..Len(Under("infraPortBlk", "parent", rows[i].tDn)) |->
                          Under("infraPortBlk", "parent", rows[i].tDn)[n].toCard
                          \o "/" \o
                          Under("infraPortBlk", "parent", rows[i].tDn)[n].toPort]]]

\* The ports of the associations of one selector name, concatenated.
PortsOfSelector(assocs, name) ==
    LET F[i \in 0..Len(assocs)] ==
            IF i = 0 THEN <<>>
            ELSE IF assocs[i].ifselector = name THEN F[i - 1] \o assocs[i].intfs
            ELSE F[i - 1]
    IN  F[Len(assocs)]

\* The associations whose selector name is not the first one's.
AfterFirst(assocs) ==
    SelectSeq(assocs, LAMBDA a : a.ifselector # assocs[1].ifselector)

\* C12: in a PC or vPC record, side A has the first distinct selector name
\* and the ports of exactly the associations of that name, side B has the
\* second distinct selector name and the ports of exactly the associations
\* of that name; a third or later name changes neither side.
C12_SidesHoldFirstTwoSelectors ==
    StaticPathReturned =>
        \A i \in 1..Len(Emitting) :
            (HasProtpaths(Emitting[i].tDn) /\ ContainerRows(Emitting[i]) # <<>>
             /\ Associations(Emitting[i]) # <<>>) =>
                LET assocs == Associations(Emitting[i])
                    rec == outcome.value[i]
                IN  /\ rec.node_a_ifselector = assocs[1].ifselector
                    /\ rec.node_a_intfs = PortsOfSelector(assocs, assocs[1].ifselector)
                    /\ IF AfterFirst(assocs) = <<>>
                       THEN /\ "node_b_ifselector" \notin DOMAIN rec
                            /\ rec.node_b_intfs = <<>>
                       ELSE /\ rec.node_b_ifselector = AfterFirst(assocs)[1].ifselector
                            /\ rec.node_b_intfs =
                                  PortsOfSelector(assocs, AfterFirst(assocs)[1].ifselector)


(* ---- C13 ---- *)

EpgDetailsReturned == outcome.status = "returned" /\ outcome.fn = "get_epg_details"

EpgDn == Dn(outcome.args.tenant, outcome.args.ap, outcome.args.epg)

\* How many children of the EPG have the class cls.
Kind(cls) ==
    Cardinality({ i \in 1..Len(EpgChildren(EpgDn)) : EpgChildren(EpgDn)[i].cls = cls })

\* How many data requests of the operation have a URI of the given query
\* and class.
Queries(q, cls) ==
    Cardinality({ i \in 1..Len(wire) :
        wire[i].kind = "data" /\ wire[i].uri.q = q /\ wire[i].uri.cls = cls })

\* The position of the first data request.
FirstData == CHOOSE i \in 1..Len(wire) : wire[i].kind = "data" /\ \A j \in 1..(i - 1) : wire[j].kind # "data"

\* C13: a get_epg_details that returns has sent the children query first and
\* once; the subnet query of the bridge domain only if there is an fvRsBd
\* child; one vzSubj query for each fvRsCons or fvRsProv child; one domain
\* query for each fvRsDomAtt child; the fvRsPathAtt query of get_static_path
\* once if there is at least one fvRsPathAtt child and not at all if there is
\* none; and a relation without child leaves its field as it began.
C13_NestedQueriesPerKind ==
    EpgDetailsReturned =>
        /\ wire[FirstData].uri = AllChildren(EpgDn)
        /\ Queries("children", "") = 1
        /\ Queries("children", "fvSubnet") = Kind("fvRsBd")
        /\ Queries("subtree", "vzSubj") = Kind("fvRsCons") + Kind("fvRsProv")
        /\ Queries("subtree", "fvRsPathAtt") = IF Kind("fvRsPathAtt") > 0 THEN 1 ELSE 0
        /\ Kind("fvRsBd") = 0 =>
              outcome.value.bd = NoneStr /\ outcome.value.subnets = List(<<>>)
        /\ Kind("fvRsCons") = 0 => outcome.value.consumed_contracts = <<>>
        /\ Kind("fvRsProv") = 0 => outcome.value.provided_contracts = <<>>
        /\ Len(outcome.value.domains) = Kind("fvRsDomAtt")
        /\ Kind("fvRsPathAtt") = 0 => outcome.value.static_paths = <<>>


(* ---- C14 ---- *)

\* The operation that runs, or the one that ended last.
CurrentFn == IF stack # <<>> THEN stack[1].fn ELSE outcome.fn

\* The URIs of the data requests sent so far, in the order of sending.
DataUris ==
    LET data == SelectSeq(wire, LAMBDA r : r.kind = "data")
    IN  [i \in 1..Len(data) |-> data[i].uri]

\* The class queries of a node listing, in the order of the claim.
QueryOrder(fn) ==
    IF fn = "get_nodes"
    THEN <<NodesFabricNode, NodesTopSystem, Class("eqptExtCh")>>
    ELSE <<ControllersFabricNode, ControllersTopSystem>>

\* The ids of the fabricNode rows that the identity step keeps.
KeptIds(fn) ==
    { r.id : r \in { x \in Range(remote.fabricNode) :
                        IF fn = "get_nodes"
                        THEN x.role # "controller" /\ x.fabricSt = "active"
                        ELSE x.role = "controller" } }

\* The synthetic ids of the chassis extenders.
FexIds(fn) ==
    IF fn = "get_nodes"
    THEN { node_from_dn(r.dn) \o r.id : r \in Range(remote.eqptExtCh) }
    ELSE {}

\* C14: get_nodes and get_controllers send their class queries in the order
\* fabric nodes, system information, chassis extenders (get_nodes only), and
\* every key of the mapping they return is the id of a fabricNode row kept
\* by the identity step or the id made of an extender's parent id and its
\* own id: the merge of the system information makes no record.
C14_MergeCreatesNoRecord ==
    CurrentFn \in {"get_nodes", "get_controllers"} =>
        /\ Len(DataUris) <= Len(QueryOrder(CurrentFn))
        /\ DataUris = SubSeq(QueryOrder(CurrentFn), 1, Len(DataUris))
        /\ outcome.status = "returned" =>
              /\ DataUris = QueryOrder(CurrentFn)
              /\ DOMAIN outcome.value \subseteq KeptIds(CurrentFn) \cup FexIds(CurrentFn)

\* get_nodes returned a mapping with a leaf and its extender while the
\* fabric has an inactive leaf that the mapping leaves out.
C14_Witness ==
    /\ outcome.status = "returned"
    /\ outcome.fn = "get_nodes"
    /\ DOMAIN outcome.value = {"101", "101111"}
    /\ \E r \in Range(remote.fabricNode) : r.id = "102" /\ r.fabricSt = "inactive"
    /\ \E r \in Range(remote.topSystem) : r.id = "101"

(* ---- C15 ---- *)

\* get_nodes has ended and none of its requests failed.
NodesEndedWithoutFailure ==
    /\ stack = <<>>
    /\ outcome.fn = "get_nodes"
    /\ outcome.status # "none"
    /\ \A i \in 1..Len(wire) : wire[i].status = "ok"

\* Every management row that get_nodes merges has a fabricNode row of its id
\* among the rows of the identity query, whatever the fabric state.
EveryManagementRowHasIdentity ==
    \A i \in 1..Len(FilteredRows(NodesTopSystem)) :
        \E j \in 1..Len(FilteredRows(NodesFabricNode)) :
            FilteredRows(NodesFabricNode)[j].id = FilteredRows(NodesTopSystem)[i].id

\* C15: get_nodes returns a mapping whenever none of its queries fails and
\* every management row has an identity row of its id, also when identity
\* rows have a fabric state other than active.
C15_NodesCompleteWithInactive ==
    (NodesEndedWithoutFailure /\ EveryManagementRowHasIdentity) =>
        outcome.status = "returned"


(* ---- C16 ---- *)

BdsReturned == outcome.status = "returned" /\ outcome.fn = "get_bds"

\* The bridge domains of the scope of the call, each one a (tenant, name).
ListedBds == Range(BdRows(outcome.args.tenant))

\* The record rec carries the tenant, the VRF and the subnets of the bridge
\* domain bd.
CarriesOwnData(rec, bd) ==
    LET ctx == Under("fvRsCtx", "bd", bd.dn)
        subnets == Under("fvSubnet", "bd", bd.dn)
    IN  /\ rec.tenant = bd.dn.tn
        /\ ctx # <<>> =>
              /\ rec.vrf = ctx[Len(ctx)].tnFvCtxName
              /\ rec.vrf_tenant = tenant_from_dn(ctx[Len(ctx)].tDn)
        /\ subnets # <<>> =>
              rec.subnets = [i \in 1..Len(subnets) |-> <<subnets[i].ip, subnets[i].scope>>]

\* C16: get_bds returns one record for each bridge domain (tenant, name) of
\* the listing, with the tenant, the VRF and the subnets of that bridge domain;
\* two bridge domains of one name in two tenants have a record each.
C16_OneRecordPerBridgeDomain ==
    BdsReturned =>
        /\ Cardinality(DOMAIN outcome.value) = Cardinality(ListedBds)
        /\ \A bd \in ListedBds :
              /\ bd.name \in DOMAIN outcome.value
              /\ CarriesOwnData(outcome.value[bd.name], bd)

====
